---- MODULE Spec2Model ----
(***************************************************************************)
(* Download manager of the Minecraft server setup tools                    *)
(* (src/tools/download_manager.py).                                        *)
(*                                                                         *)
(* Spec      : one call of DownloadManager.download_file, one loop         *)
(*             iteration (request, streaming, verification, return or      *)
(*             backoff sleep) per step; the network and the file system    *)
(*             are the environment and choose each attempt's fate.         *)
(* SpecBatch : one call of DownloadManager.batch_download, with the        *)
(*             thread pool's workers interleaved.                          *)
(***************************************************************************)
EXTENDS Integers, Sequences, FiniteSets, TLC

(***************************************************************************)
(* Bounds of the model.                                                    *)
(***************************************************************************)
\* largest max_retries explored (the smallest is -1)
MaxRetries == 3
\* longest source (bytes)
MaxLen == 2
\* longest download_list
MaxBatch == 3
\* largest max_parallel explored (the smallest is 0)
MaxParallel == 2
\* most invocations of download_file with the same arguments
MaxCalls == 3
\* largest retry_delay (seconds) and largest retry_backoff explored
MaxDelay == 2
MaxBackoff == 2
\* clock readings per second, and the clock ticks one transfer is followed for
TicksPerSecond == 2
MaxTicks == 4
\* most button presses followed in the management GUI
MaxOps == 4

VARIABLES
    \* ---- DownloadConfig (self.config)
    max_retries,      \* DownloadConfig.max_retries
    max_parallel,     \* DownloadConfig.max_parallel
    retry_delay,      \* DownloadConfig.retry_delay, in seconds
    retry_backoff,    \* DownloadConfig.retry_backoff
    \* ---- arguments of download_file
    expected,         \* expected_checksum: None or a string (sequence of characters)
    algorithm,        \* checksum_algorithm
    resume,           \* resume
    \* ---- environment of download_file
    source,           \* the bytes the server holds under the url
    exists,           \* output_path.exists()
    file,             \* content of output_path (<<>> when it does not exist)
    \* ---- control state of download_file
    pc,               \* "idle" | "call" | "attempt" | "done"; "calculate" | "verify"
                      \* in the checksum round trip; "probe" in get_download_info
    attempt,          \* the loop variable of line 258
    result,           \* what download_file returned
    calls,            \* invocations of download_file made with these arguments
    \* ---- observations of one download_file call
    nreq,             \* urlopen calls issued (transfer attempts made)
    request,          \* the latest attempt's request and open mode
    sleeps,           \* the attempt indices a backoff sleep was made for, in order
    delays,           \* the argument of each time.sleep call, in order
    errors,           \* the message of each failed attempt, in order
    via,              \* how the latest attempt ran: "none" | "present" | "error" |
                      \* "full" (whole source written) | "range" (rest of the
                      \* source appended) | "416"
    \* ---- batch_download
    download_list,    \* the urls of the (url, path) tuples, in order
    parallel,         \* argument parallel
    bpc,              \* "idle" | "submit" | "collect" | "seq" | "done" | "raised"
    submitted,        \* number of tasks handed to the executor
    queue,            \* the executor's work queue (indices into download_list)
    nthreads,         \* worker threads the executor has started
    running,          \* indices whose download_file call is executing
    finished,         \* index -> outcome of its download_file call
    collected,        \* indices whose future the main thread has consumed
    results,          \* the dict results: url -> outcome
    startOrder,       \* indices in the order their download_file calls began
    finishOrder,      \* indices in the order their download_file calls returned
    \* ---- one transfer of _download_with_resume and its ProgressReporter
    show_progress,    \* DownloadConfig.show_progress
    now,              \* what time.time() returns, in ticks
    content_length,   \* the response's Content-Length header
    remaining,        \* the part of the response body not yet read
    tpc,              \* "idle" | "request" | "read" | "done"
    total_size,       \* ProgressReporter.total_size
    downloaded,       \* ProgressReporter.downloaded
    last_update,      \* ProgressReporter.last_update
    displays,         \* the lines _display_progress has printed, in order
    \* ---- MinecraftServerGUI (server_gui.py)
    server_process,   \* self.server_process: NoProcess or the pid of the Popen object
    server_status,    \* self.server_status
    start_script,     \* start.sh exists in the server directory
    alive,            \* pids of launched processes that have not exited
    readers,          \* pids whose read_output thread has not seen end of output
    launched,         \* processes launched so far
    handler,          \* the button handler that ran last
    ops               \* button handlers run so far

dlvars == <<expected, algorithm, resume, source, exists, file, pc, attempt,
            result, calls, nreq, request, sleeps, delays, errors, via>>
\* the state of the other components
progressvars == <<show_progress, now, content_length, remaining, tpc, total_size,
                  downloaded, last_update, displays>>
guivars == <<server_process, server_status, start_script, alive, readers, launched,
             handler, ops>>
extvars == <<progressvars, guivars>>
batchvars == <<download_list, parallel, bpc, submitted, queue, nthreads, running,
               finished, collected, results, startOrder, finishOrder>>
vars == <<max_retries, max_parallel, retry_delay, retry_backoff, dlvars, batchvars,
          extvars>>

(***************************************************************************)
(* Values.                                                                 *)
(***************************************************************************)
None == <<"None">>

\* A file's bytes are small integers; the source of length n is 1, 2, .., n, so
\* that a missing, duplicated or foreign byte shows in the content.
SourceOf(n) == [i \in 1..n |-> i]
\* a one-byte file that is no part of any source
JunkFile == <<0>>

\* the other components have not been started
NoHeader == [present |-> FALSE, value |-> 0]
ProgressIdle ==
    /\ show_progress = TRUE
    /\ now = 0
    /\ content_length = NoHeader
    /\ remaining = <<>>
    /\ tpc = "idle"
    /\ total_size = 0
    /\ downloaded = 0
    /\ last_update = 0
    /\ displays = <<>>
\* self.server_process = None (line 62)
NoProcess == 0
GuiIdle ==
    /\ server_process = NoProcess
    /\ server_status = "stopped"
    /\ start_script = FALSE
    /\ alive = {}
    /\ readers = {}
    /\ launched = 0
    /\ handler = "none"
    /\ ops = 0
ExtIdle == ProgressIdle /\ GuiIdle

\* no attempt has been made
NoRequest == [index |-> 0 - 1, range |-> 0 - 1, mode |-> "none", existed |-> FALSE, size |-> 0]

\* dictionaries: the empty dict, and d[k] = v
EmptyDict == [k \in {} |-> "none"]
Put(d, k, v) == [x \in (DOMAIN d) \cup {k} |-> IF x = k THEN v ELSE d[x]]

Prefixes(s) == {SubSeq(s, 1, k) : k \in 0..Len(s)}

\* ---- strings are sequences of one-character strings
LowerChar(c) ==
    CASE c = "A" -> "a" [] c = "B" -> "b" [] c = "C" -> "c"
      [] c = "D" -> "d" [] c = "E" -> "e" [] c = "F" -> "f"
      [] OTHER -> c
UpperChar(c) ==
    CASE c = "a" -> "A" [] c = "b" -> "B" [] c = "c" -> "C"
      [] c = "d" -> "D" [] c = "e" -> "E" [] c = "f" -> "F"
      [] OTHER -> c
\* str.lower() and str.upper()
Lower(s) == [i \in DOMAIN s |-> LowerChar(s[i])]
Upper(s) == [i \in DOMAIN s |-> UpperChar(s[i])]

\* algorithm.lower() (lines 163, 188) on the algorithm names explored
AlgLower(a) ==
    CASE a = "MD5" -> "md5" [] a = "SHA256" -> "sha256" [] OTHER -> a

\* ChecksumVerifier.ALGORITHMS
ALGORITHMS == {"md5", "sha1", "sha256", "sha512"}

\* hash_obj.hexdigest(): a lower-case hex string that depends on the algorithm
\* and on every byte of the content.  The hash function itself is replaced by an
\* injective stand-in: one tag character for the algorithm, one hex letter per byte.
HexLetter(b) == <<"a", "b", "c", "d", "e", "f">>[(b % 6) + 1]
AlgTag(a) ==
    CASE a = "md5" -> "1" [] a = "sha1" -> "2" [] a = "sha256" -> "3" [] OTHER -> "4"
hexdigest(a, content) == <<AlgTag(a)>> \o [i \in DOMAIN content |-> HexLetter(content[i])]

\* Python truthiness of expected_checksum (lines 245, 264)
Truthy(e) == e # None /\ e # <<>>

\* verify_file without the comparison of line 179: any existing file passes
verify_file_no_compare(ex, f, e, a) ==
    IF AlgLower(a) \notin ALGORITHMS THEN "raise"
    ELSE IF ~ex THEN "False" ELSE "True"

\* verify_file with line 179 comparing the two strings as they are
verify_file_case_sensitive(ex, f, e, a) ==
    IF AlgLower(a) \notin ALGORITHMS THEN "raise"
    ELSE IF ~ex THEN "False"
    ELSE IF hexdigest(AlgLower(a), f) = e THEN "True" ELSE "False"

\* ChecksumVerifier.verify_file, for a supported algorithm: "raise" is the
\* ValueError of line 166.
verify_file(ex, f, e, a) ==
    IF AlgLower(a) \notin ALGORITHMS THEN "raise"
    ELSE IF ~ex THEN "False"
    ELSE IF Lower(hexdigest(AlgLower(a), f)) = Lower(e) THEN "True" ELSE "False"

\* ChecksumVerifier.calculate_checksum: "raise", None or the digest
calculate_checksum(ex, f, a) ==
    IF AlgLower(a) \notin ALGORITHMS THEN <<"raise">>
    ELSE IF ~ex THEN None
    ELSE hexdigest(AlgLower(a), f)

(***************************************************************************)
(* DownloadResult                                                          *)
(***************************************************************************)
\* nothing returned yet
Pending ==
    [kind |-> "pending", success |-> FALSE, error_message |-> "None", file_size |-> 0,
     download_time |-> "zero", checksum_verified |-> FALSE, checksum_value |-> None]
\* the function ended without a return statement
PyNone == [Pending EXCEPT !.kind = "None"]
\* the dataclass with its defaults (lines 70-79)
DownloadResult == [Pending EXCEPT !.kind = "DownloadResult"]

\* lines 299-303
FailureResult(msg) ==
    [DownloadResult EXCEPT !.success = FALSE, !.error_message = msg,
                           !.download_time = "elapsed"]
\* lines 248-255
AlreadyPresentResult ==
    [DownloadResult EXCEPT !.success = TRUE, !.file_size = Len(file),
                           !.download_time = "zero", !.checksum_verified = TRUE,
                           !.checksum_value = expected]
\* lines 279-286
SuccessResult(f, verified, actual) ==
    [DownloadResult EXCEPT !.success = TRUE, !.file_size = Len(f),
                           !.download_time = "elapsed", !.checksum_verified = verified,
                           !.checksum_value = actual]

(***************************************************************************)
(* download_file                                                           *)
(***************************************************************************)
HttpCodes == {404, 416, 500}
HttpMsg(code) ==
    CASE code = 404 -> "HTTP Error 404" [] code = 416 -> "HTTP Error 416"
      [] OTHER -> "HTTP Error 500"
MsgUnsupported == "Unsupported checksum algorithm"
MsgChecksum == "Checksum verification failed"
MsgMkdir == "mkdir failed"
\* lines 362-363: URLError (timeout, connection refused)
MsgUrl == "URL Error"
\* lines 365-366: any other exception, wrapped in DownloadError
MsgPermission == "Download error: permission denied"
MsgReset == "Download error: connection reset"

\* range(self.config.max_retries + 1) is empty (line 258)
LoopEmpty == max_retries + 1 <= 0

\* line 289 with the bound off by one
RetryAllowedOffByOne == attempt < max_retries + 1

\* line 289 with the comparison turned round
RetryAllowedInverted == attempt > max_retries

\* line 289
RetryAllowed == attempt < max_retries

\* line 260 passing resume whatever the attempt
ResumeParamEveryAttempt == resume

\* the resume argument of _download_with_resume (line 260)
ResumeParam == resume /\ attempt > 0
\* lines 313-316: a Range header is sent
RangeSent == ResumeParam /\ exists
resume_pos == IF RangeSent THEN Len(file) ELSE 0
\* line 342
Mode == IF ResumeParam THEN "ab" ELSE "wb"
\* the destination's content right after open(output_path, mode)
Opened == IF Mode = "ab" /\ exists THEN file ELSE <<>>
\* the response body: the rest of the source when a Range header was sent and the
\* server honours it, the whole source otherwise
Body(honours) ==
    IF RangeSent /\ honours THEN SubSeq(source, resume_pos + 1, Len(source))
    ELSE source
\* a server that honours the Range header answers with a body only when the
\* range starts inside the source
ServerChoices ==
    IF RangeSent
    THEN {FALSE} \cup (IF resume_pos < Len(source) THEN {TRUE} ELSE {})
    ELSE {TRUE}

\* download_file returns r (pc "done"); ex2, f2: the destination as the attempt left it
Return(r, ex2, f2) ==
    /\ result' = r
    /\ pc' = "done"
    /\ exists' = ex2
    /\ file' = f2
    /\ UNCHANGED <<attempt, sleeps, delays>>

\* line 290: retry_delay * (retry_backoff ** attempt); x ** 0 is 1
RECURSIVE Pow(_, _)
Pow(x, n) == IF n = 0 THEN 1 ELSE x * Pow(x, n - 1)
Delay(i) == retry_delay * Pow(retry_backoff, i)

\* the failure path removing the destination
FailureUnlinks(ex2, f2) == [exists |-> FALSE, file |-> <<>>]

\* lines 295-303: the failure path logs and builds the result; the destination
\* stays as the attempt left it
FailureLeaves(ex2, f2) == [exists |-> ex2, file |-> f2]

\* lines 288-303: the attempt raised msg
Except(msg, ex2, f2) ==
    /\ errors' = Append(errors, msg)
    /\ IF RetryAllowed
       THEN /\ sleeps' = Append(sleeps, attempt)
            /\ delays' = Append(delays, Delay(attempt))
            /\ attempt' = attempt + 1
            /\ exists' = ex2
            /\ file' = f2
            /\ UNCHANGED <<pc, result>>
       ELSE Return(FailureResult(msg), FailureLeaves(ex2, f2).exists,
                   FailureLeaves(ex2, f2).file)

\* lines 270-271 left out: the invalid file stays
NoUnlink(ex2, f2) == [exists |-> ex2, file |-> f2]

\* lines 270-271: if output_path.exists(): output_path.unlink()
Unlink(ex2, f2) == [exists |-> FALSE, file |-> <<>>]

\* lines 262-286: _download_with_resume returned True
AfterTransfer(ex2, f2) ==
    LET v == IF Truthy(expected) THEN verify_file(ex2, f2, expected, algorithm)
             ELSE "skipped"
        \* lines 263-267
        checksum_verified == IF Truthy(expected) THEN v = "True" ELSE TRUE
        actual == calculate_checksum(ex2, f2, algorithm)
    IN  IF v = "raise" THEN Except(MsgUnsupported, ex2, f2)
        ELSE IF v = "False"
             THEN Except(MsgChecksum, Unlink(ex2, f2).exists, Unlink(ex2, f2).file)
        ELSE IF actual = <<"raise">> THEN Except(MsgUnsupported, ex2, f2)
        ELSE IF ~ex2 THEN Except("stat: No such file", ex2, f2)
        ELSE /\ Return(SuccessResult(f2, checksum_verified, actual), ex2, f2)
             /\ UNCHANGED errors

\* line 242: mkdir(parents=True, exist_ok=True) can raise only when the
\* directory is missing; an existing destination lies in an existing directory
MkdirChoices == IF exists THEN {TRUE} ELSE BOOLEAN

\* the already-present check of lines 245-255 left out
PrecheckSkipped == FALSE

\* line 245: if output_path.exists() and expected_checksum
PrecheckApplies == exists /\ Truthy(expected)

\* lines 238-258: mkdir, the already-present check, entry into the retry loop
DownloadFileCall(mkdirOk) ==
    /\ pc = "call"
    /\ UNCHANGED <<nreq, request, max_retries, max_parallel, retry_delay, retry_backoff, extvars,
                   expected, algorithm, resume,
                   source, calls, batchvars>>
    /\ LET v == IF PrecheckApplies
                THEN verify_file(exists, file, expected, algorithm)
                ELSE "skipped"
       IN  IF ~mkdirOk
           THEN /\ Return(FailureResult(MsgMkdir), exists, file)
                /\ UNCHANGED <<errors, via>>
           ELSE IF v = "raise"
           THEN /\ Return(FailureResult(MsgUnsupported), exists, file)
                /\ UNCHANGED <<errors, via>>
           ELSE IF v = "True"
           THEN /\ Return(AlreadyPresentResult, exists, file)
                /\ via' = "present"
                /\ UNCHANGED errors
           ELSE IF LoopEmpty
           THEN /\ Return(PyNone, exists, file)
                /\ UNCHANGED <<errors, via>>
           ELSE /\ pc' = "attempt"
                /\ attempt' = 0
                /\ UNCHANGED <<result, exists, file, sleeps, delays, errors, via>>

\* lines 313-321, 342: the Range header (its first byte, -1 without one) and
\* the open mode of this attempt ("none" when urlopen raised and open was not
\* reached), with the destination as the attempt finds it
Request(opens) ==
    [index |-> attempt, range |-> IF RangeSent THEN resume_pos ELSE 0 - 1,
     mode |-> IF opens THEN Mode ELSE "none", existed |-> exists, size |-> Len(file)]

\* what every attempt does: one more urlopen call (line 323)
AttemptFrame ==
    /\ pc = "attempt"
    /\ nreq' = nreq + 1
    /\ UNCHANGED <<max_retries, max_parallel, retry_delay, retry_backoff, extvars,
                expected, algorithm, resume, source,
                   calls, batchvars>>

\* urlopen raises URLError (timeout, connection refused): lines 362-363
AttemptUrlError ==
    /\ AttemptFrame
    /\ request' = Request(FALSE)
    /\ via' = "error"
    /\ Except(MsgUrl, exists, file)

\* urlopen raises HTTPError: lines 356-360
AttemptHttpError(code) ==
    /\ AttemptFrame
    /\ request' = Request(FALSE)
    /\ IF code = 416 /\ ResumeParam
       THEN via' = "416" /\ AfterTransfer(exists, file)
       ELSE via' = "error" /\ Except(HttpMsg(code), exists, file)

\* open(output_path, mode) raises OSError (permission denied): lines 343, 365-366
AttemptOpenFails ==
    /\ AttemptFrame
    /\ request' = Request(TRUE)
    /\ via' = "error"
    /\ Except(MsgPermission, exists, file)

\* the connection breaks (reset, read timeout) after k bytes of the body were
\* written, possibly all of them with the end of the body still awaited:
\* lines 344-350, 365-366
AttemptInterrupted(honours, k) ==
    /\ AttemptFrame
    /\ request' = Request(TRUE)
    /\ k <= Len(Body(honours))
    /\ via' = "error"
    /\ Except(MsgReset, TRUE,
              Opened \o SubSeq(Body(honours), 1, k))

\* the whole body is written: lines 343-354, then 262-286
AttemptComplete(honours) ==
    /\ AttemptFrame
    /\ request' = Request(TRUE)
    /\ via' = (IF RangeSent /\ honours THEN "range" ELSE "full")
    /\ AfterTransfer(TRUE, Opened \o Body(honours))

(***************************************************************************)
(* Specification of one download_file call                                 *)
(***************************************************************************)
AlgorithmNames == {"sha256", "MD5", "crc32"}
ExpectedSet(a, src) ==
    {None, <<>>, hexdigest(AlgLower(a), src), Upper(hexdigest(AlgLower(a), src)),
     hexdigest(AlgLower(a), JunkFile)}
\* what a destination left by an earlier run may hold
InitialFiles(src) == Prefixes(src) \cup {JunkFile}

BatchIdle ==
    /\ download_list = <<>>
    /\ parallel = FALSE
    /\ bpc = "idle"
    /\ submitted = 0
    /\ queue = <<>>
    /\ nthreads = 0
    /\ running = {}
    /\ finished = EmptyDict
    /\ collected = {}
    /\ results = EmptyDict
    /\ startOrder = <<>>
    /\ finishOrder = <<>>

Init ==
    /\ max_retries \in -1..MaxRetries
    /\ max_parallel = 1
    /\ retry_delay = 1
    /\ retry_backoff = 2
    /\ ExtIdle
    /\ source \in {SourceOf(n) : n \in 0..MaxLen}
    /\ algorithm \in AlgorithmNames
    /\ expected \in ExpectedSet(algorithm, source)
    /\ resume \in BOOLEAN
    /\ exists \in BOOLEAN
    /\ file \in (IF exists THEN InitialFiles(source) ELSE {<<>>})
    /\ pc = "call"
    /\ attempt = 0
    /\ result = Pending
    /\ calls = 1
    /\ nreq = 0
    /\ request = NoRequest
    /\ sleeps = <<>>
    /\ delays = <<>>
    /\ errors = <<>>
    /\ via = "none"
    /\ BatchIdle

Next ==
    \/ \E mkdirOk \in MkdirChoices : DownloadFileCall(mkdirOk)
    \/ AttemptUrlError
    \/ \E code \in HttpCodes : AttemptHttpError(code)
    \/ AttemptOpenFails
    \/ \E honours \in ServerChoices : \E k \in 0..MaxLen : AttemptInterrupted(honours, k)
    \/ \E honours \in ServerChoices : AttemptComplete(honours)

Spec == Init /\ [][Next]_vars

\* the caller invokes download_file again with the same arguments after a
\* verified success; the destination is what the earlier call left
Reinvoke ==
    /\ pc = "done"
    /\ result.kind = "DownloadResult"
    /\ result.success
    /\ Truthy(expected)
    /\ calls < MaxCalls
    /\ calls' = calls + 1
    /\ pc' = "call"
    /\ attempt' = 0
    /\ result' = Pending
    /\ nreq' = 0
    /\ request' = NoRequest
    /\ sleeps' = <<>>
    /\ delays' = <<>>
    /\ errors' = <<>>
    /\ via' = "none"
    /\ UNCHANGED <<max_retries, max_parallel, retry_delay, retry_backoff, extvars,
                expected, algorithm, resume, source,
                   exists, file, batchvars>>

NextIdem == Next \/ Reinvoke

SpecIdem == Init /\ [][NextIdem]_vars

\* one download_file call under any DownloadConfig(retry_delay, retry_backoff)
\* with whole, positive values; no digest is expected
BackoffInit ==
    /\ max_retries \in 0..MaxRetries
    /\ max_parallel = 1
    /\ retry_delay \in 1..MaxDelay
    /\ retry_backoff \in 1..MaxBackoff
    /\ ExtIdle
    /\ source = SourceOf(MaxLen)
    /\ algorithm = "sha256"
    /\ expected = None
    /\ resume \in BOOLEAN
    /\ exists = FALSE
    /\ file = <<>>
    /\ pc = "call"
    /\ attempt = 0
    /\ result = Pending
    /\ calls = 1
    /\ nreq = 0
    /\ request = NoRequest
    /\ sleeps = <<>>
    /\ delays = <<>>
    /\ errors = <<>>
    /\ via = "none"
    /\ BatchIdle

SpecBackoff == BackoffInit /\ [][Next]_vars

(***************************************************************************)
(* batch_download                                                          *)
(***************************************************************************)
Urls == {"u1", "u2"}
Min(a, b) == IF a < b THEN a ELSE b
Indices == 1..Len(download_list)

\* What a download_file(url, path) call of the batch can hand back (lines
\* 221-303 with expected_checksum = None): a success or a failure outcome, or
\* None when the retry loop is empty; every exception is caught at line 297,
\* so the call never raises.
DownloadFileOutcomesRaising == {"success", "failure", "raise"}
DownloadFileOutcomes ==
    IF LoopEmpty THEN {"failure", "none"} ELSE {"success", "failure"}

\* line 382, ignoring the caller's flag
UseParallelIgnoringFlag == Len(download_list) > 1
\* line 382
UseParallel == parallel /\ Len(download_list) > 1

\* line 386 without the cap
MaxWorkersUncapped == Len(download_list)
\* line 386
max_workers == Min(max_parallel, Len(download_list))

\* results[url] = result only for a success
StoreResultIfSuccess(d, url, outcome) ==
    IF outcome = "success" THEN Put(d, url, outcome) ELSE d
\* an entry once written is kept
StoreResultFirstWins(d, url, outcome) ==
    IF url \in DOMAIN d THEN d ELSE Put(d, url, outcome)
\* results[url] = result (lines 400, 402, 410)
StoreResult(d, url, outcome) == Put(d, url, outcome)

BatchFrame == UNCHANGED <<max_retries, max_parallel, retry_delay, retry_backoff, extvars,
                dlvars, download_list, parallel>>

\* lines 380-388: choose the path; ThreadPoolExecutor(max_workers) raises
\* ValueError for max_workers <= 0
BatchCall ==
    /\ bpc = "call"
    /\ bpc' = IF UseParallel
              THEN (IF max_workers <= 0 THEN "raised" ELSE "submit")
              ELSE (IF Len(download_list) = 0 THEN "done" ELSE "seq")
    /\ BatchFrame
    /\ UNCHANGED <<submitted, queue, nthreads, running, finished, collected, results,
                   startOrder, finishOrder>>

\* lines 390-393: executor.submit for the next (url, path); the executor starts
\* a worker thread while it has fewer than max_workers
Submit ==
    /\ bpc = "submit"
    /\ submitted' = submitted + 1
    /\ queue' = Append(queue, submitted + 1)
    /\ nthreads' = IF nthreads < max_workers THEN nthreads + 1 ELSE nthreads
    /\ bpc' = IF submitted + 1 = Len(download_list) THEN "collect" ELSE "submit"
    /\ BatchFrame
    /\ UNCHANGED <<running, finished, collected, results, startOrder, finishOrder>>

\* an idle worker thread takes the oldest queued task and calls download_file
WorkerStart ==
    /\ bpc \in {"submit", "collect"}
    /\ queue # <<>>
    /\ Cardinality(running) < nthreads
    /\ running' = running \cup {Head(queue)}
    /\ startOrder' = Append(startOrder, Head(queue))
    /\ queue' = Tail(queue)
    /\ BatchFrame
    /\ UNCHANGED <<bpc, submitted, nthreads, finished, collected, results, finishOrder>>

\* the download_file call of task i ends: its future is done
WorkerFinish(i, outcome) ==
    /\ bpc \in {"submit", "collect"}
    /\ i \in running
    /\ running' = running \ {i}
    /\ finished' = Put(finished, i, outcome)
    /\ finishOrder' = Append(finishOrder, i)
    /\ BatchFrame
    /\ UNCHANGED <<bpc, submitted, queue, nthreads, collected, results, startOrder>>

\* lines 396-405 and 412: as_completed yields the done future of task i; an
\* exception of the call becomes a failure outcome; after the last future the
\* pool is shut down and results returned
Collect(i) ==
    /\ bpc = "collect"
    /\ i \in (DOMAIN finished) \ collected
    /\ collected' = collected \cup {i}
    /\ results' = StoreResult(results, download_list[i],
                              IF finished[i] = "raise" THEN "failure" ELSE finished[i])
    /\ bpc' = IF collected' = Indices THEN "done" ELSE "collect"
    /\ BatchFrame
    /\ UNCHANGED <<submitted, queue, nthreads, running, finished, startOrder, finishOrder>>

\* lines 408-409: the sequential loop calls download_file for the next tuple
SeqCall ==
    /\ bpc = "seq"
    /\ running = {}
    /\ running' = {Len(finishOrder) + 1}
    /\ startOrder' = Append(startOrder, Len(finishOrder) + 1)
    /\ BatchFrame
    /\ UNCHANGED <<bpc, submitted, queue, nthreads, finished, collected, results,
                   finishOrder>>

\* lines 409-412: the call returns (an exception would leave batch_download:
\* the loop has no handler), the outcome is stored, and after the last tuple
\* results is returned
SeqReturn(outcome) ==
    /\ bpc = "seq"
    /\ running # {}
    /\ LET i == Len(finishOrder) + 1
       IN  /\ running' = {}
           /\ finished' = Put(finished, i, outcome)
           /\ finishOrder' = Append(finishOrder, i)
           /\ IF outcome = "raise"
              THEN bpc' = "raised" /\ UNCHANGED results
              ELSE /\ results' = StoreResult(results, download_list[i], outcome)
                   /\ bpc' = IF i = Len(download_list) THEN "done" ELSE "seq"
    /\ BatchFrame
    /\ UNCHANGED <<submitted, queue, nthreads, collected, startOrder>>

(***************************************************************************)
(* Specification of one batch_download call                                *)
(***************************************************************************)
ListsUpTo(n) == UNION {[1..k -> Urls] : k \in 0..n}

DownloadIdle ==
    /\ expected = None
    /\ algorithm = "sha256"
    /\ resume = TRUE
    /\ source = <<>>
    /\ exists = FALSE
    /\ file = <<>>
    /\ pc = "idle"
    /\ attempt = 0
    /\ result = Pending
    /\ calls = 0
    /\ nreq = 0
    /\ request = NoRequest
    /\ sleeps = <<>>
    /\ delays = <<>>
    /\ errors = <<>>
    /\ via = "none"

BatchInit ==
    /\ max_retries \in {-1, 0}
    /\ max_parallel \in 0..MaxParallel
    /\ retry_delay = 1
    /\ retry_backoff = 2
    /\ ExtIdle
    /\ download_list \in ListsUpTo(MaxBatch)
    /\ parallel \in BOOLEAN
    /\ bpc = "call"
    /\ submitted = 0
    /\ queue = <<>>
    /\ nthreads = 0
    /\ running = {}
    /\ finished = EmptyDict
    /\ collected = {}
    /\ results = EmptyDict
    /\ startOrder = <<>>
    /\ finishOrder = <<>>
    /\ DownloadIdle

BatchNext ==
    \/ BatchCall
    \/ Submit
    \/ WorkerStart
    \/ \E i \in running : \E outcome \in DownloadFileOutcomes : WorkerFinish(i, outcome)
    \/ \E i \in Indices : Collect(i)
    \/ SeqCall
    \/ \E outcome \in DownloadFileOutcomes : SeqReturn(outcome)

SpecBatch == BatchInit /\ [][BatchNext]_vars

(***************************************************************************)
(* ChecksumVerifier: calculate_checksum, then verify_file on the same file *)
(***************************************************************************)
\* the algorithm names a caller may pass
ChecksumAlgorithmNames == {"md5", "sha1", "sha256", "sha512", "MD5", "SHA256", "crc32"}

\* every file of at most MaxLen bytes
Files == UNION {[1..n -> 0..MaxLen] : n \in 0..MaxLen}

\* how the caller writes the digest it passes on
Styles == {"lower", "upper", "mixed"}
Mixed(s) == [i \in DOMAIN s |-> IF i % 2 = 0 THEN UpperChar(s[i]) ELSE s[i]]
Restyle(style, s) ==
    CASE style = "upper" -> Upper(s) [] style = "mixed" -> Mixed(s) [] OTHER -> s

ChecksumFrame ==
    UNCHANGED <<max_retries, max_parallel, retry_delay, retry_backoff, extvars,
                algorithm, resume, source, exists, file,
                attempt, calls, nreq, request, sleeps, delays, errors, via, batchvars>>

\* lines 185-207
CalculateChecksum(style) ==
    /\ pc = "calculate"
    /\ ChecksumFrame
    /\ LET d == calculate_checksum(exists, file, algorithm)
       IN  IF d = <<"raise">>
           THEN /\ pc' = "done"
                /\ result' = [kind |-> "ValueError"]
                /\ UNCHANGED expected
           ELSE /\ pc' = "verify"
                /\ expected' = (IF d = None THEN None ELSE Restyle(style, d))
                /\ UNCHANGED result

\* lines 160-183
VerifyFile ==
    /\ pc = "verify"
    /\ ChecksumFrame
    /\ pc' = "done"
    /\ result' = [kind |-> "bool", value |-> verify_file(exists, file, expected, algorithm)]
    /\ UNCHANGED expected

ChecksumInit ==
    /\ max_retries = 0
    /\ max_parallel = 1
    /\ retry_delay = 1
    /\ retry_backoff = 2
    /\ ExtIdle
    /\ algorithm \in ChecksumAlgorithmNames
    /\ exists \in BOOLEAN
    /\ file \in (IF exists THEN Files ELSE {<<>>})
    /\ expected = None
    /\ resume = TRUE
    /\ source = <<>>
    /\ pc = "calculate"
    /\ attempt = 0
    /\ result = Pending
    /\ calls = 0
    /\ nreq = 0
    /\ request = NoRequest
    /\ sleeps = <<>>
    /\ delays = <<>>
    /\ errors = <<>>
    /\ via = "none"
    /\ BatchIdle

ChecksumNext ==
    \/ \E style \in Styles : CalculateChecksum(style)
    \/ VerifyFile

SpecChecksum == ChecksumInit /\ [][ChecksumNext]_vars

(***************************************************************************)
(* One transfer of _download_with_resume, chunk by chunk, with its         *)
(* ProgressReporter                                                        *)
(***************************************************************************)
\* line 109 without the rate limit
DueAlways(last) == TRUE

\* line 109: not (current_time - self.last_update < 1.0)
Due(last) == ~(now - last < TicksPerSecond)

\* lines 115-138: a percentage is printed exactly when total_size > 0
Display(total, dl) ==
    [at |-> now, percentage |-> total > 0, downloaded |-> dl, total_size |-> total]

\* ProgressReporter.update(n), lines 102-113, on a reporter in the given state
Update(total, dl, last, disp, n) ==
    IF ~show_progress \/ ~Due(last)
    THEN [downloaded |-> dl + n, last_update |-> last, displays |-> disp]
    ELSE [downloaded |-> dl + n, last_update |-> now,
          displays |-> Append(disp, Display(total, dl + n))]

TransferFrame ==
    UNCHANGED <<max_retries, max_parallel, retry_delay, retry_backoff, show_progress,
                guivars,
                expected, algorithm, resume, source, pc, attempt, result, calls,
                nreq, request, sleeps, delays, errors, via, batchvars>>

\* lines 323-343: the response arrives, the reporter is created and is told
\* of the bytes already on disk, the destination is opened
TransferRespond(honours, sendsLength) ==
    /\ tpc = "request"
    /\ TransferFrame
    /\ LET header == IF sendsLength
                      THEN [present |-> TRUE, value |-> Len(Body(honours))]
                      ELSE NoHeader
           \* lines 326-329
           total == (IF header.present THEN header.value ELSE 0)
                    + (IF resume_pos > 0 THEN resume_pos ELSE 0)
           \* lines 337-339
           r == IF resume_pos > 0 THEN Update(total, 0, 0, <<>>, resume_pos)
                ELSE [downloaded |-> 0, last_update |-> 0, displays |-> <<>>]
       IN  /\ content_length' = header
           /\ total_size' = total
           /\ downloaded' = r.downloaded
           /\ last_update' = r.last_update
           /\ displays' = r.displays
           /\ remaining' = Body(honours)
           /\ exists' = TRUE
           /\ file' = Opened
    /\ tpc' = "read"
    /\ UNCHANGED now

\* lines 344-350: one chunk of n bytes is read, written and reported
TransferChunk(n) ==
    /\ tpc = "read"
    /\ n <= Len(remaining)
    /\ TransferFrame
    /\ file' = file \o SubSeq(remaining, 1, n)
    /\ remaining' = SubSeq(remaining, n + 1, Len(remaining))
    /\ LET r == Update(total_size, downloaded, last_update, displays, n)
       IN  /\ downloaded' = r.downloaded
           /\ last_update' = r.last_update
           /\ displays' = r.displays
    /\ UNCHANGED <<now, content_length, tpc, total_size, exists>>

\* lines 346-348, 352: read() returns b'', the loop ends
TransferEnd ==
    /\ tpc = "read"
    /\ remaining = <<>>
    /\ TransferFrame
    /\ tpc' = "done"
    /\ UNCHANGED <<now, content_length, remaining, total_size, downloaded,
                   last_update, displays, exists, file>>

\* time passes
Tick ==
    /\ tpc \in {"request", "read"}
    /\ now < TicksPerSecond + MaxTicks
    /\ now' = now + 1
    /\ TransferFrame
    /\ UNCHANGED <<content_length, remaining, tpc, total_size, downloaded,
                   last_update, displays, exists, file>>

\* an attempt of download_file, the first or the one after a failed first, is
\* about to call urlopen; the clock shows at least one second
TransferInit ==
    /\ max_retries = 1
    /\ max_parallel = 1
    /\ retry_delay = 1
    /\ retry_backoff = 2
    /\ source = SourceOf(MaxLen)
    /\ algorithm = "sha256"
    /\ expected = None
    /\ resume \in BOOLEAN
    /\ attempt \in {0, 1}
    /\ exists \in BOOLEAN
    /\ file \in (IF exists THEN Prefixes(source) ELSE {<<>>})
    /\ pc = "attempt"
    /\ result = Pending
    /\ calls = 1
    /\ nreq = attempt
    /\ request = (IF attempt = 0 THEN NoRequest
                  ELSE [NoRequest EXCEPT !.index = 0,
                                         !.mode = IF exists THEN "wb" ELSE "none"])
    /\ sleeps = [i \in 1..attempt |-> i - 1]
    /\ delays = [i \in 1..attempt |-> Delay(i - 1)]
    /\ errors = [i \in 1..attempt |-> IF exists THEN MsgReset ELSE MsgUrl]
    /\ via = (IF attempt = 0 THEN "none" ELSE "error")
    /\ BatchIdle
    /\ GuiIdle
    /\ show_progress \in BOOLEAN
    /\ now = TicksPerSecond
    /\ content_length = NoHeader
    /\ remaining = <<>>
    /\ tpc = "request"
    /\ total_size = 0
    /\ downloaded = 0
    /\ last_update = 0
    /\ displays = <<>>

TransferNext ==
    \/ \E honours \in ServerChoices, sendsLength \in BOOLEAN :
           TransferRespond(honours, sendsLength)
    \/ \E n \in 1..MaxLen : TransferChunk(n)
    \/ TransferEnd
    \/ Tick

SpecTransfer == TransferInit /\ [][TransferNext]_vars

(***************************************************************************)
(* get_download_info                                                       *)
(***************************************************************************)
\* dict(response.headers): the header names as the server wrote them -> value
Merge(d1, d2) ==
    [k \in (DOMAIN d1) \cup (DOMAIN d2) |-> IF k \in DOMAIN d1 THEN d1[k] ELSE d2[k]]
Header(name, value) == [k \in {name} |-> value]
\* headers.get(key, default) on that dict: the key is matched as written
Get(headers, key, default) == IF key \in DOMAIN headers THEN headers[key] ELSE default

ContentLengths ==
    {EmptyDict, Header("Content-Length", <<"0">>), Header("Content-Length", <<"1", "2">>),
     Header("Content-Length", <<"x">>), Header("content-length", <<"1", "2">>)}
AcceptRanges ==
    {EmptyDict, Header("Accept-Ranges", <<"b", "y", "t", "e", "s">>),
     Header("Accept-Ranges", <<"n", "o", "n", "e">>),
     Header("accept-ranges", <<"b", "y", "t", "e", "s">>)}
ContentTypes == {EmptyDict, Header("Content-Type", <<"application/java-archive">>)}
LastModifieds == {EmptyDict, Header("Last-Modified", <<"Wed, 04 Nov 2026 00:00:00 GMT">>)}
ResponseHeaders ==
    {Merge(Merge(cl, ar), Merge(ct, lm)) :
        cl \in ContentLengths, ar \in AcceptRanges, ct \in ContentTypes,
        lm \in LastModifieds}

\* int(s) of line 425, on the strings explored: ValueError unless s is a
\* non-empty string of digits
Digits == {"0", "1", "2", "3", "4", "5", "6", "7", "8", "9"}
DigitValue(c) ==
    CASE c = "0" -> 0 [] c = "1" -> 1 [] c = "2" -> 2 [] c = "3" -> 3 [] c = "4" -> 4
      [] c = "5" -> 5 [] c = "6" -> 6 [] c = "7" -> 7 [] c = "8" -> 8 [] OTHER -> 9
RECURSIVE DecimalValue(_)
DecimalValue(s) ==
    IF s = <<>> THEN 0
    ELSE DecimalValue(SubSeq(s, 1, Len(s) - 1)) * 10 + DigitValue(s[Len(s)])
IntRaises(s) == s = <<>> \/ \E i \in DOMAIN s : s[i] \notin Digits
int(s) == DecimalValue(s)

\* sub in s, for strings (line 429)
In(sub, s) ==
    \E i \in 0..(Len(s) - Len(sub)) : SubSeq(s, i + 1, i + Len(sub)) = sub

\* what urlopen can raise at line 419
TransportErrors == {MsgUrl, HttpMsg(404), HttpMsg(500), "timed out"}
StatusCodes == {200, 203}
MsgInt == "invalid literal for int() with base 10"

\* the exception leaves get_download_info
RaisedInfo(url, msg) == [raised |-> msg]

\* lines 434-439
ErrorInfo(url, msg) == [url |-> url, error |-> msg, success |-> FALSE]

\* lines 422-430
Info(url, code, headers) ==
    [url |-> url,
     status_code |-> code,
     content_length |-> IF "Content-Length" \in DOMAIN headers
                        THEN int(headers["Content-Length"]) ELSE 0,
     content_type |-> Get(headers, "Content-Type", <<"unknown">>),
     last_modified |-> Get(headers, "Last-Modified", None),
     headers |-> headers,
     supports_resume |-> In(<<"b", "y", "t", "e", "s">>, Get(headers, "Accept-Ranges", <<>>))]

InfoFrame ==
    UNCHANGED <<max_retries, max_parallel, retry_delay, retry_backoff, extvars,
                expected, algorithm, resume, source,
                exists, file, attempt, calls, request, sleeps, delays, errors, batchvars>>

\* lines 416-419: urlopen raises
GetDownloadInfoFails(url, msg) ==
    /\ pc = "probe"
    /\ InfoFrame
    /\ nreq' = nreq + 1
    /\ via' = msg
    /\ result' = ErrorInfo(url, msg)
    /\ pc' = "done"

\* lines 416-432: the server answers with code and headers
GetDownloadInfoAnswered(url, code, headers) ==
    /\ pc = "probe"
    /\ InfoFrame
    /\ nreq' = nreq + 1
    /\ via' = "ok"
    /\ result' = (IF /\ "Content-Length" \in DOMAIN headers
                     /\ IntRaises(headers["Content-Length"])
                  THEN ErrorInfo(url, MsgInt)
                  ELSE Info(url, code, headers))
    /\ pc' = "done"

InfoInit ==
    /\ max_retries = 0
    /\ max_parallel = 1
    /\ retry_delay = 1
    /\ retry_backoff = 2
    /\ ExtIdle
    /\ algorithm = "sha256"
    /\ expected = None
    /\ resume = TRUE
    /\ source = SourceOf(MaxLen)
    /\ exists \in BOOLEAN
    /\ file \in (IF exists THEN InitialFiles(source) ELSE {<<>>})
    /\ pc = "probe"
    /\ attempt = 0
    /\ result = Pending
    /\ calls = 0
    /\ nreq = 0
    /\ request = NoRequest
    /\ sleeps = <<>>
    /\ delays = <<>>
    /\ errors = <<>>
    /\ via = "none"
    /\ BatchIdle

InfoNext ==
    \/ \E url \in Urls, msg \in TransportErrors : GetDownloadInfoFails(url, msg)
    \/ \E url \in Urls, code \in StatusCodes, headers \in ResponseHeaders :
           GetDownloadInfoAnswered(url, code, headers)

SpecInfo == InfoInit /\ [][InfoNext]_vars

(***************************************************************************)
(* cf_downloader: ModDownloader.make_request                               *)
(***************************************************************************)
\* self.max_retries and self.retry_delay of ModDownloader.__init__
ModDownloader_max_retries == 3
ModDownloader_retry_delay == 2

\* what one pass of the loop can meet: Request() raising before any request
\* is sent ("ValueError"), a response ("ok"), an HTTPError, URLError, or any
\* other exception of urlopen ("timeout")
RequestOutcomes == {"ValueError", "ok", "404", "429", "500", "URLError", "timeout"}

\* line 90 never taken
NotFoundNever(outcome) == FALSE
\* line 90: e.code == 404
NotFound(outcome) == outcome = "404"

\* lines 92 and 109: (2 ** attempt) * self.retry_delay
BackoffDelay(i) == Pow(2, i) * ModDownloader_retry_delay

MakeRequestFrame ==
    UNCHANGED <<max_retries, max_parallel, retry_delay, retry_backoff, extvars,
                expected, algorithm, resume, source, exists, file, calls, request,
                batchvars>>

\* lines 82-113: one pass of the loop.  mustWait: rate_limit finds the last
\* request less than request_delay ago and sleeps (lines 66-68)
MakeRequestAttempt(outcome, mustWait) ==
    /\ pc = "make_request"
    /\ attempt < ModDownloader_max_retries
    /\ MakeRequestFrame
    /\ via' = (IF mustWait THEN "rate limited" ELSE "not rate limited")
    /\ nreq' = (IF outcome = "ValueError" THEN nreq ELSE nreq + 1)
    /\ errors' = (IF outcome = "ok" THEN errors ELSE Append(errors, outcome))
    /\ LET last == attempt = ModDownloader_max_retries - 1
           \* lines 91-94
           d1 == IF outcome = "429" THEN <<BackoffDelay(attempt)>> ELSE <<>>
           \* lines 108-111
           d2 == IF ~last THEN <<BackoffDelay(attempt)>> ELSE <<>>
       IN  IF outcome = "ok"
           THEN /\ result' = [kind |-> "response"]
                /\ pc' = "done"
                /\ UNCHANGED <<attempt, sleeps, delays>>
           ELSE IF NotFound(outcome) \/ (last /\ outcome # "429")
           THEN /\ result' = [kind |-> "None"]
                /\ pc' = "done"
                /\ UNCHANGED <<attempt, sleeps, delays>>
           ELSE /\ delays' = delays \o d1 \o d2
                /\ sleeps' = sleeps \o [i \in 1..Len(d1 \o d2) |-> attempt]
                /\ attempt' = attempt + 1
                \* line 113 after the last pass
                /\ pc' = (IF last THEN "done" ELSE pc)
                /\ result' = (IF last THEN [kind |-> "None"] ELSE result)

MakeRequestInit ==
    /\ max_retries = 0
    /\ max_parallel = 1
    /\ retry_delay = 1
    /\ retry_backoff = 2
    /\ ExtIdle
    /\ DownloadIdle
    /\ BatchIdle

MakeRequestCall ==
    /\ pc = "idle"
    /\ pc' = "make_request"
    /\ MakeRequestFrame
    /\ UNCHANGED <<attempt, result, nreq, sleeps, delays, errors, via>>

MakeRequestNext ==
    \/ MakeRequestCall
    \/ \E outcome \in RequestOutcomes, mustWait \in BOOLEAN :
           MakeRequestAttempt(outcome, mustWait)

\* every pass of the loop ends: urlopen has a timeout and the sleeps are finite
SpecMakeRequest ==
    MakeRequestInit /\ [][MakeRequestNext]_vars /\ WF_vars(MakeRequestNext)

(***************************************************************************)
(* server_gui: start_server, stop_server, kill_server, restart_server      *)
(***************************************************************************)
\* the part of the GUI's state the handlers work on
GuiState ==
    [server_process |-> server_process, server_status |-> server_status,
     alive |-> alive, readers |-> readers, launched |-> launched]

\* self.server_process and self.server_process.poll() is None
Running(st) == st.server_process # NoProcess /\ st.server_process \in st.alive

\* the check of lines 909-911 left out
AlreadyRunningNever(st) == FALSE
\* lines 909-911
AlreadyRunning(st) == Running(st)

\* lines 914-921: Popen is given stdout and stderr but no stdin, so the
\* object's stdin attribute is None
PopenStdin == "None"

\* lines 902-930; popenOk: subprocess.Popen does not raise
start_server(st, popenOk) ==
    IF ~start_script THEN st
    ELSE IF AlreadyRunning(st) THEN st
    ELSE IF ~popenOk THEN st
    ELSE [st EXCEPT !.server_process = st.launched + 1,
                    !.launched = st.launched + 1,
                    !.alive = st.alive \cup {st.launched + 1},
                    !.readers = st.readers \cup {st.launched + 1},
                    !.server_status = "starting"]

\* lines 932-954.  self.server_process.stdin.write raises AttributeError when
\* stdin is None; the handler of line 953 shows an error box.  graceful: the
\* server exits within 30 s of the stop command; terminated: it exits within
\* 10 s of terminate()
stop_server(st, graceful, terminated) ==
    IF ~Running(st) THEN st
    ELSE IF PopenStdin = "None" THEN st
    ELSE IF graceful \/ terminated
    THEN [st EXCEPT !.alive = st.alive \ {st.server_process},
                    !.server_status = "stopped"]
    ELSE st

\* lines 962-979: terminate, and kill after 5 s; wait() returns once the
\* process has gone
kill_server(st) ==
    IF ~Running(st) THEN st
    ELSE [st EXCEPT !.alive = st.alive \ {st.server_process},
                    !.server_status = "stopped"]

\* the process exits by itself during the time.sleep(2) of line 959
Sleep(st, exits) ==
    IF exits /\ Running(st) THEN [st EXCEPT !.alive = st.alive \ {st.server_process}]
    ELSE st

\* lines 956-960
restart_server(st, graceful, terminated, exits, popenOk) ==
    start_server(Sleep(stop_server(st, graceful, terminated), exits), popenOk)

\* a button handler has run: the state it leaves
Handled(name, st) ==
    /\ ops < MaxOps
    /\ ops' = ops + 1
    /\ handler' = name
    /\ server_process' = st.server_process
    /\ server_status' = st.server_status
    /\ alive' = st.alive
    /\ readers' = st.readers
    /\ launched' = st.launched
    /\ UNCHANGED <<max_retries, max_parallel, retry_delay, retry_backoff, dlvars,
                   batchvars, progressvars, start_script>>

StartServer(popenOk) == Handled("start_server", start_server(GuiState, popenOk))
StopServer(graceful, terminated) ==
    Handled("stop_server", stop_server(GuiState, graceful, terminated))
KillServer == Handled("kill_server", kill_server(GuiState))
RestartServer(graceful, terminated, exits, popenOk) ==
    Handled("restart_server",
            restart_server(GuiState, graceful, terminated, exits, popenOk))

GuiEnvFrame ==
    UNCHANGED <<max_retries, max_parallel, retry_delay, retry_backoff, dlvars,
                batchvars, progressvars, start_script, server_process, launched,
                handler, ops>>

\* a launched process exits (crash, or stop typed by a player with rights)
ProcessExits(p) ==
    /\ p \in alive
    /\ alive' = alive \ {p}
    /\ GuiEnvFrame
    /\ UNCHANGED <<server_status, readers>>

\* lines 1009-1010: the reader thread of p meets the "Done (" line and the
\* main loop runs its callback
ReaderSeesDone(p) ==
    /\ p \in readers
    /\ p \in alive
    /\ server_status' = "running"
    /\ GuiEnvFrame
    /\ UNCHANGED <<alive, readers>>

\* lines 1012-1013: the output of p has ended
ReaderSeesEnd(p) ==
    /\ p \in readers
    /\ p \notin alive
    /\ readers' = readers \ {p}
    /\ server_status' = "stopped"
    /\ GuiEnvFrame
    /\ UNCHANGED alive

\* lines 1417-1429, run every 5 s by monitor_server
UpdateStatus ==
    /\ ~Running(GuiState)
    /\ server_status' = "stopped"
    /\ GuiEnvFrame
    /\ UNCHANGED <<alive, readers>>

GuiInit ==
    /\ max_retries = 0
    /\ max_parallel = 1
    /\ retry_delay = 1
    /\ retry_backoff = 2
    /\ DownloadIdle
    /\ BatchIdle
    /\ ProgressIdle
    /\ server_process = NoProcess
    /\ server_status = "stopped"
    /\ start_script \in BOOLEAN
    /\ alive = {}
    /\ readers = {}
    /\ launched = 0
    /\ handler = "none"
    /\ ops = 0

GuiNext ==
    \/ \E popenOk \in BOOLEAN : StartServer(popenOk)
    \/ \E graceful \in BOOLEAN, terminated \in BOOLEAN : StopServer(graceful, terminated)
    \/ KillServer
    \/ \E graceful \in BOOLEAN, terminated \in BOOLEAN, exits \in BOOLEAN,
          popenOk \in BOOLEAN : RestartServer(graceful, terminated, exits, popenOk)
    \/ \E p \in alive : ProcessExits(p)
    \/ \E p \in readers : ReaderSeesDone(p)
    \/ \E p \in readers : ReaderSeesEnd(p)
    \/ UpdateStatus

SpecGui == GuiInit /\ [][GuiNext]_vars

(***************************************************************************)
(* Properties of batch_download (specification SpecBatch)                  *)
(***************************************************************************)
BatchDone == bpc = "done"
UrlsOf(l) == {l[i] : i \in DOMAIN l}
DistinctUrls(l) == Cardinality(UrlsOf(l)) = Len(l)
Position(s, x) == CHOOSE k \in DOMAIN s : s[k] = x
UpTo(n) == [i \in 1..n |-> i]

\* C5 as stated: for every list and every limit N >= 1 the returned report has
\* as many outcomes as the input has requests.
C5_ReportLengthIsInputLength ==
    (BatchDone /\ max_parallel >= 1) =>
        Cardinality(DOMAIN results) = Len(download_list)

\* C5 amended: for every list and every limit N >= 1, in both modes, the
\* returned report holds an outcome for the url of every request and one entry
\* per distinct url: as many outcomes as requests when the urls are pairwise
\* distinct.
C5_ReportCoversEveryUrl ==
    (BatchDone /\ max_parallel >= 1) =>
        /\ DOMAIN results = UrlsOf(download_list)
        /\ \A i \in Indices : i \in DOMAIN finished
        /\ DistinctUrls(download_list) =>
               Cardinality(DOMAIN results) = Len(download_list)

\* a returned parallel batch with a failed transfer whose report is shorter
\* than its input, two requests sharing a url
C5_Witness ==
    /\ BatchDone
    /\ UseParallel
    /\ max_parallel >= 1
    /\ Len(download_list) >= 3
    /\ Cardinality(DOMAIN results) = 2
    /\ \E i \in Indices : finished[i] = "failure"

\* C6: no failure of a transfer stops the batch: the only exception that leaves
\* batch_download is the pool's rejection of its size, raised before any
\* transfer has started; until it returns the batch can always take a step; and
\* when it returns every request's download_file call has ended and its url has
\* an outcome in the report.
C6_FailuresDoNotStopTheBatch ==
    /\ bpc = "raised" => (startOrder = <<>> /\ UseParallel /\ max_parallel <= 0)
    /\ bpc \in {"call", "submit", "collect", "seq"} => ENABLED BatchNext
    /\ BatchDone =>
        \A i \in Indices :
            /\ i \in DOMAIN finished
            /\ download_list[i] \in DOMAIN results

\* a returned parallel batch in which a transfer succeeded after another one
\* had failed
C6_Witness ==
    /\ BatchDone
    /\ UseParallel
    /\ \E i, j \in Indices :
        /\ finished[i] = "failure"
        /\ finished[j] = "success"
        /\ Position(finishOrder, i) < Position(finishOrder, j)
        /\ results[download_list[j]] = "success"

\* C7: during a parallel batch with limit max_parallel = N >= 1, never more
\* than N download_file calls are executing.
C7_AtMostNRunning ==
    (UseParallel /\ max_parallel >= 1) => Cardinality(running) <= max_parallel

\* N transfers executing while a further request waits in the queue
C7_Witness ==
    /\ UseParallel
    /\ max_parallel >= 2
    /\ Cardinality(running) = max_parallel
    /\ queue # <<>>

\* C8: with limit 1 or parallel = False the transfers start in the order of the
\* list, one at a time, each after the one before it has returned, and they end
\* in that order.
C8_SequentialInOrder ==
    (max_parallel = 1 \/ ~parallel) =>
        /\ startOrder = UpTo(Len(startOrder))
        /\ finishOrder = UpTo(Len(finishOrder))
        /\ Len(startOrder) <= Len(finishOrder) + 1
        /\ running = {i \in Indices : Len(finishOrder) < i /\ i <= Len(startOrder)}

\* a returned batch of the parallel path with limit 1 over several requests
C8_Witness ==
    /\ BatchDone
    /\ UseParallel
    /\ max_parallel = 1
    /\ Len(download_list) >= 3
    /\ finishOrder = UpTo(Len(download_list))


(***************************************************************************)
(* Properties of download_file (specification Spec)                        *)
(***************************************************************************)
Returned == pc = "done"
Succeeded == result.kind = "DownloadResult" /\ result.success
Failed == result.kind = "DownloadResult" /\ ~result.success
Last(s) == s[Len(s)]
DigestMatches ==
    exists /\ Lower(hexdigest(AlgLower(algorithm), file)) = Lower(expected)

\* C1: for every configuration (any integer max_retries) and every behaviour of
\* the server and the file system, a download_file call that has ended has
\* returned a DownloadResult object.
C1_ReturnsDownloadResult == Returned => result.kind = "DownloadResult"

\* C2: whenever download_file returns success for a request that supplied an
\* expected digest, the destination exists and its digest under the requested
\* algorithm equals the expected digest, compared case-insensitively.
C2_SuccessImpliesDigestMatch ==
    (Succeeded /\ Truthy(expected)) => DigestMatches

\* a success of the resumed path for an expected digest given in upper case
C2_Witness ==
    /\ Succeeded
    /\ via = "range"
    /\ Truthy(expected)
    /\ expected # Lower(expected)
    /\ Len(file) = MaxLen

\* C3: for a request with no expected digest, whenever download_file returns
\* success the destination exists and holds exactly the bytes of the source (its
\* size and the reported file_size equal the source's length), whatever attempts
\* preceded and whether or not the server honours the Range header.
C3_SuccessImpliesSourceSize ==
    (Succeeded /\ expected = None) =>
        /\ exists
        /\ file = source
        /\ result.file_size = Len(source)

\* C4: in every DownloadResult returned, checksum_verified is True only if the
\* caller supplied an expected digest (which was then compared).
C4_VerifiedOnlyIfCompared ==
    (result.kind = "DownloadResult" /\ result.checksum_verified) => Truthy(expected)

\* C9 as stated: at most max_retries + 1 attempts, and a failure outcome is
\* returned only after the last permitted attempt has failed, carrying that
\* attempt's message.
C9_FailureOnlyAfterLastAttempt ==
    /\ nreq <= max_retries + 1
    /\ Failed =>
        /\ nreq = max_retries + 1
        /\ errors # <<>>
        /\ result.error_message = Last(errors)

\* C9 amended: at most max_retries + 1 attempts (none when that is not positive);
\* a failure outcome is returned either before the first attempt (the directory
\* cannot be created, or the check of an existing destination raises for an
\* unsupported algorithm) or after all max_retries + 1 attempts have failed, and
\* then its error_message is the last attempt's message.
C9_FailureAfterLastAttemptOrBeforeFirst ==
    /\ nreq <= (IF LoopEmpty THEN 0 ELSE max_retries + 1)
    /\ Failed =>
        \/ /\ nreq = 0
           /\ errors = <<>>
           /\ result.error_message \in {MsgMkdir, MsgUnsupported}
        \/ /\ nreq = max_retries + 1
           /\ Len(errors) = nreq
           /\ result.error_message = Last(errors)

\* a failure after several attempts whose last error differs from the first
C9_Witness ==
    /\ Failed
    /\ nreq = max_retries + 1
    /\ nreq >= 2
    /\ errors[1] # Last(errors)
    /\ result.error_message = Last(errors)

\* C10: an attempt that failed with HTTP 404 is the last one: no further attempt
\* and no backoff sleep follow it.
C10_NotFoundAbortsAtOnce ==
    \A i \in DOMAIN errors :
        errors[i] = HttpMsg(404) =>
            /\ i = Len(errors)
            /\ Returned
            /\ Len(sleeps) < i

ElementsOf(s) == {s[i] : i \in DOMAIN s}

\* C11: an attempt that ended in a checksum mismatch is the last one:
\* download_file makes no further transfer attempt and returns.
C11_MismatchIsNotRetried ==
    \A i \in DOMAIN errors :
        errors[i] = MsgChecksum => (i = Len(errors) /\ Returned)

\* C12: whenever download_file returns a failure caused by a checksum mismatch
\* after a transfer, the destination file does not exist.
C12_MismatchFailureLeavesNoFile ==
    (Failed /\ result.error_message = MsgChecksum) => ~exists

\* a mismatch failure after a transfer that wrote the whole source
C12_Witness ==
    /\ Failed
    /\ result.error_message = MsgChecksum
    /\ via = "full"
    /\ Len(source) = MaxLen
    /\ ~exists

\* C13: an attempt that failed with a local I/O error is the last one: no
\* further attempt and no backoff sleep follow it.
C13_LocalIoErrorIsNotRetried ==
    \A i \in DOMAIN errors :
        errors[i] = MsgPermission =>
            /\ i = Len(errors)
            /\ Returned
            /\ Len(sleeps) < i

\* C14: a request naming an unsupported algorithm together with an expected
\* digest issues no network request, whether or not the destination exists,
\* and does not end in success.
C14_UnsupportedAlgorithmFailsFast ==
    (Truthy(expected) /\ AlgLower(algorithm) \notin ALGORITHMS) =>
        /\ nreq = 0
        /\ ~Succeeded

\* C16: whenever a transfer was interrupted after some bytes and a later,
\* resuming attempt of download_file receives its response body in full and
\* the call returns success, the destination holds exactly the bytes of the
\* source, as one uninterrupted download leaves it.
C16_ResumedFileEqualsSource ==
    (Succeeded /\ resume /\ MsgReset \in ElementsOf(errors) /\ via \in {"full", "range"}) =>
        (exists /\ file = source)

\* C17: transient failures (timeout or refused connection, connection reset,
\* 5xx) are retried while attempts remain: after k <= max_retries of them the
\* call is on its way to attempt k + 1 or has succeeded, and a success after k
\* transient failures was reached with exactly k + 1 requests and k backoff
\* sleeps, one after each failed attempt.
TransientErrors == {MsgUrl, HttpMsg(500), MsgReset}
C17_TransientFailuresAreRetried ==
    (ElementsOf(errors) \subseteq TransientErrors) =>
        /\ (errors # <<>> /\ Len(errors) <= max_retries) =>
               (pc = "attempt" \/ Succeeded)
        /\ (Succeeded /\ via # "present") =>
               /\ Len(errors) <= max_retries
               /\ nreq = Len(errors) + 1
               /\ sleeps = [i \in 1..Len(errors) |-> i - 1]

\* three transient failures, a timeout among them, and a success on attempt 4
C17_Witness ==
    /\ Succeeded
    /\ errors = <<MsgUrl, HttpMsg(500), MsgReset>>
    /\ nreq = 4
    /\ Len(sleeps) = 3
    /\ file = source

\* C15: a download_file call that finds the destination present with the
\* expected digest returns, in one step, success with download_time zero,
\* having issued no network request and left the destination as it was; the
\* same holds for every further invocation.
C15_PresentAndMatchingIsIdempotent ==
    [][(pc = "call" /\ Truthy(expected) /\ AlgLower(algorithm) \in ALGORITHMS
            /\ DigestMatches)
        => /\ pc' = "done"
           /\ result'.kind = "DownloadResult"
           /\ result'.success
           /\ result'.download_time = "zero"
           /\ nreq' = 0
           /\ exists'
           /\ file' = file]_vars
\* the third invocation in a row has returned through the short-circuit
C15_Witness ==
    /\ calls = MaxCalls
    /\ Returned
    /\ Succeeded
    /\ via = "present"
    /\ result.download_time = "zero"
    /\ nreq = 0
    /\ file = source
    /\ Len(file) = MaxLen

InfoKeys == {"content_length", "content_type", "last_modified", "supports_resume"}
\* C19: get_download_info always returns a dict and leaves every file as it
\* was.  After a transport error the dict carries the key 'error' and
\* success = False, and none of the probe's fields; a dict without 'error'
\* carries content_length, content_type, last_modified and supports_resume,
\* read from the response headers named Content-Length, Content-Type,
\* Last-Modified and Accept-Ranges.
C19_InfoNeverRaisesNorWrites ==
    /\ [](pc = "done" =>
            /\ "raised" \notin DOMAIN result
            /\ "url" \in DOMAIN result
            /\ via \in TransportErrors => "error" \in DOMAIN result
            /\ "error" \in DOMAIN result =>
                    (result.success = FALSE /\ InfoKeys \cap DOMAIN result = {})
            /\ "error" \notin DOMAIN result =>
                    /\ via = "ok"
                    /\ InfoKeys \subseteq DOMAIN result
                    /\ "Content-Length" \in DOMAIN result.headers =>
                           result.content_length = DecimalValue(result.headers["Content-Length"])
                    /\ "Content-Type" \in DOMAIN result.headers =>
                           result.content_type = result.headers["Content-Type"]
                    /\ "Last-Modified" \in DOMAIN result.headers =>
                           result.last_modified = result.headers["Last-Modified"]
                    /\ result.supports_resume =
                           /\ "Accept-Ranges" \in DOMAIN result.headers
                           /\ In(<<"b", "y", "t", "e", "s">>, result.headers["Accept-Ranges"]))
    /\ [][file' = file /\ exists' = exists]_vars
\* a probe that timed out while a partial destination file lay on disk, and
\* an answered probe reporting length 12 and byte-range support
C19_Witness ==
    /\ pc = "done"
    /\ via = "timed out"
    /\ result.error = "timed out"
    /\ exists
    /\ Len(file) = 1
C19_WitnessAnswered ==
    /\ pc = "done"
    /\ via = "ok"
    /\ "error" \notin DOMAIN result
    /\ result.content_length = 12
    /\ result.supports_resume
    /\ result.last_modified # None
    /\ exists

\* C20: with max_parallel <= 0 no transfer of the batch is ever started,
\* whatever the parallel flag and the length of the list; the batch-download
\* command passes parallel = (--parallel > 1) and max_parallel = --parallel.
C20_InvalidParallelStartsNothing == max_parallel <= 0 => startOrder = <<>>

\* C21: the k-th backoff sleep of a download_file call lasts
\* retry_delay * retry_backoff^(k-1) seconds, and under every configuration
\* each sleep is strictly longer than the one before it.
C21_DelaysExactAndStrictlyIncreasing ==
    /\ \A k \in DOMAIN delays : delays[k] = retry_delay * Pow(retry_backoff, k - 1)
    /\ \A k \in 1..(Len(delays) - 1) : delays[k] < delays[k + 1]

ResumeRequested == request.index > 0 /\ resume
\* C22 as stated: an attempt sends a Range header, starting at the size of the
\* destination, and opens the destination for append exactly when its index
\* is > 0, resume is allowed and the destination exists; every other attempt
\* sends no Range header and opens for write.
C22_RangeAndAppendWhenPartialPresent ==
    nreq > 0 =>
        /\ (request.range >= 0) = (ResumeRequested /\ request.existed)
        /\ request.range >= 0 => request.range = request.size
        /\ request.mode = "ab" => (ResumeRequested /\ request.existed)
        /\ request.mode = "wb" => ~(ResumeRequested /\ request.existed)
\* C22 amended: the Range header is sent exactly when the index is > 0, resume
\* is allowed and the destination exists, and starts at the destination's
\* size; the destination is opened for append exactly when the index is > 0
\* and resume is allowed, whether or not it exists, and for write otherwise.
C22_RangeWhenPartialPresentAppendWhenResuming ==
    nreq > 0 =>
        /\ (request.range >= 0) = (ResumeRequested /\ request.existed)
        /\ request.range >= 0 => request.range = request.size
        /\ request.mode = "ab" => ResumeRequested
        /\ request.mode = "wb" => ~ResumeRequested
\* a second attempt continuing a partial file of one byte
C22_Witness ==
    /\ request.index = 1
    /\ request.range = 1
    /\ request.mode = "ab"
    /\ request.size = 1
    /\ Succeeded
    /\ file = source

\* an attempt that sent a Range header is answered 416 (the call names a
\* supported checksum algorithm)
RangeAnswered416 ==
    /\ pc = "attempt"
    /\ RangeSent
    /\ AlgLower(algorithm) \in ALGORITHMS
    /\ nreq' = nreq + 1
    /\ via' = "416"
\* C23: when an attempt that sent a Range header receives HTTP 416, nothing is
\* written, no further attempt is made and, unless an expected digest was
\* supplied and does not match, the destination is left as it was and
\* download_file returns success; a 416 is recorded as an error only on an
\* attempt that was not resuming.
C23_RangeNotSatisfiableEndsTheCall ==
    [][/\ RangeAnswered416 =>
            /\ pc' = "done"
            /\ file' = file \/ ~exists'
            /\ (~Truthy(expected) \/ DigestMatches) =>
                    /\ file' = file
                    /\ exists'
                    /\ result'.kind = "DownloadResult"
                    /\ result'.success
       /\ (pc = "attempt" /\ Len(errors') > Len(errors)
              /\ errors'[Len(errors')] = HttpMsg(416)) => ~ResumeParam]_vars

IsPrefix(s, t) == Len(s) <= Len(t) /\ SubSeq(t, 1, Len(s)) = s
TransportMsgs == {MsgUrl, MsgReset, HttpMsg(404), HttpMsg(416), HttpMsg(500)}
\* the step in which download_file gives up after a transport error
GivesUpOnTransportError ==
    /\ pc = "attempt"
    /\ pc' = "done"
    /\ Len(errors') > Len(errors)
    /\ errors'[Len(errors')] \in TransportMsgs
\* C24: download_file removes an existing destination only in a step that
\* ends in a checksum mismatch.  When it gives up after a transport error the
\* destination is as the last attempt left it: untouched when the request
\* itself failed, and otherwise holding the bytes that attempt wrote, after the
\* earlier content when the attempt was resuming.
C24_PartialFileSurvivesFailure ==
    [][/\ (exists /\ ~exists') => errors'[Len(errors')] = MsgChecksum
       /\ GivesUpOnTransportError =>
            /\ result'.kind = "DownloadResult" /\ ~result'.success
            /\ errors'[Len(errors')] # MsgReset => (file' = file /\ exists' = exists)
            /\ errors'[Len(errors')] = MsgReset =>
                    /\ exists'
                    /\ IF RangeSent THEN IsPrefix(file, file')
                       ELSE IsPrefix(file', source)]_vars
\* the last allowed attempt broke off after the first byte, which is on disk
C24_Witness ==
    /\ Returned
    /\ Failed
    /\ errors # <<>>
    /\ Len(errors) = max_retries + 1
    /\ Last(errors) = MsgReset
    /\ exists
    /\ Len(file) = 1
    /\ Len(source) = MaxLen

\* C25: any two consecutive displays of one ProgressReporter are at least one
\* second apart by the clock update reads, however often update is called;
\* every call adds its byte count, so that downloaded is the size of the
\* destination; nothing is displayed when show_progress is off.
C25_AtMostOneDisplayPerSecond ==
    /\ \A k \in 1..(Len(displays) - 1) :
            displays[k + 1].at - displays[k].at >= TicksPerSecond
    /\ tpc \in {"read", "done"} => downloaded = Len(file)
    /\ ~show_progress => displays = <<>>
\* two displays, and a later update that displayed nothing
C25_Witness ==
    /\ tpc = "done"
    /\ Len(displays) = 2
    /\ downloaded > displays[2].downloaded
    /\ now - displays[2].at < TicksPerSecond

\* C26: when the response carries no Content-Length header, no display of the
\* transfer shows a percentage, for full transfers and for transfers resumed
\* from a non-empty partial file.
C26_NoPercentageWithoutContentLength ==
    (tpc \in {"read", "done"} /\ ~content_length.present) =>
        \A k \in DOMAIN displays : ~displays[k].percentage

\* the requests of the list that name url, and the last of them
RequestsFor(url) == {i \in Indices : download_list[i] = url}
LastRequestFor(url) == CHOOSE i \in RequestsFor(url) : \A j \in RequestsFor(url) : j <= i
\* C27: after batch_download has returned, the keys of the report are the
\* distinct urls of the list, each value is the outcome of a download_file
\* call made for a request with that url, and in sequential mode it is the
\* outcome of the last request with that url.
C27_ReportKeyedByDistinctUrl ==
    BatchDone =>
        /\ DOMAIN results = UrlsOf(download_list)
        /\ \A url \in DOMAIN results :
              /\ \E i \in RequestsFor(url) : results[url] = finished[i]
              /\ ~UseParallel => results[url] = finished[LastRequestFor(url)]
\* a sequential batch of three requests, the first and the last for the same
\* url with different outcomes
C27_Witness ==
    /\ BatchDone
    /\ ~UseParallel
    /\ Len(download_list) = 3
    /\ download_list[1] = download_list[3]
    /\ download_list[1] # download_list[2]
    /\ finished[1] = "success"
    /\ finished[3] = "failure"
    /\ results[download_list[1]] = "failure"
    /\ Cardinality(DOMAIN results) = 2

\* C28: a make_request call issues at most max_retries (3) requests and
\* always ends, returning a response or None; a 404 ends it in that very pass
\* with None, without a backoff sleep and without a further request.
C28_MakeRequestBoundedAndNotFoundFinal ==
    /\ [](nreq <= ModDownloader_max_retries)
    /\ [](pc = "done" => result.kind \in {"response", "None"})
    /\ <>(pc = "done")
    /\ [][/\ (Len(errors') > Len(errors) /\ errors'[Len(errors')] = "404") =>
                (pc' = "done" /\ result'.kind = "None" /\ delays' = delays)
          /\ pc = "done" => nreq' = nreq]_vars
\* the third request is answered 404 after two failed passes
C28_Witness ==
    /\ pc = "done"
    /\ nreq = ModDownloader_max_retries
    /\ errors = <<"500", "URLError", "404">>
    /\ delays = <<2, 4>>
    /\ result.kind = "None"

\* C29: whatever buttons are pressed, at most one process launched by the
\* GUI is alive, and it is the one server_process refers to: when a handler
\* launches a process, the process server_process referred to before has
\* exited and the new one is the only one alive.
C29_AtMostOneServerProcess ==
    /\ [](Cardinality(alive) <= 1 /\ alive \subseteq {server_process})
    /\ [][launched' > launched =>
            (server_process \notin alive' /\ alive' = {server_process'})]_vars
\* a second server was launched after the first was killed, and a further
\* press of Start found it running
C29_Witness ==
    /\ launched = 2
    /\ alive = {2}
    /\ server_process = 2
    /\ handler = "start_server"
    /\ ops = 4

\* C30: a stop_server call that finds the server process running ends with
\* that process no longer running and server_status = 'stopped'; a
\* restart_server call that finds it running ends with a newly launched
\* process running.
C30_StopEndsTheProcess ==
    [][/\ (ops' = ops + 1 /\ handler' = "stop_server" /\ Running(GuiState)) =>
            (server_process \notin alive' /\ server_status' = "stopped")
       /\ (ops' = ops + 1 /\ handler' = "restart_server" /\ Running(GuiState)) =>
            (server_process' # server_process /\ server_process' \in alive')]_vars
====
